---- MODULE Spec2Model ----
(***************************************************************************)
(* Model of the download-progress core (src/src/app.rs) and of the         *)
(* generation relay (src/src/main.rs) of ollama-rust.                      *)
(*                                                                         *)
(* Spec       : progress store, start/cancel/check handlers and the        *)
(*              detached pull tasks.                                       *)
(* SpecRelay  : one generation relay stream (stream_handler).              *)
(* SpecDownloads : the client's list of downloads and the server functions *)
(*              it calls.                                                  *)
(* SpecChat   : the client's chat: do_send and its reader loops.           *)
(*                                                                         *)
(* Conventions                                                             *)
(*  - a model name is a sequence of characters, so that trim(), contains() *)
(*    and starts_with() are computed and not assumed;                      *)
(*  - a JSON value is a tagged record (JStr, JNum, JBool, JMissing) and a  *)
(*    JSON object is a record of such values; the bytes of a serialised    *)
(*    object are two symbols (its two halves), so that a transport chunk   *)
(*    may cut a line in the middle;                                        *)
(*  - percent (an f32 in the source) is kept in thousandths of a percent,  *)
(*    truncated: 100.0 is 100000.                                          *)
(***************************************************************************)
EXTENDS Integers, Sequences, FiniteSets, TLC

VARIABLES store, tasks, writer, resp, relay, client

vars == <<store, tasks, writer, resp, relay, client>>

(***************************************************************************)
(* Bounds of the model.                                                    *)
(***************************************************************************)
MaxTasks == 2        \* pull tasks spawned in one behaviour
MaxReads == 2        \* stream items the pull tasks receive, all together
MaxTotal == 2        \* the `total` byte count upstream reports
MaxNow == 1          \* wall-clock seconds read by SystemTime::now()
MaxModels == 1       \* entries of the model list /api/tags reports
MaxGenChunks == 3    \* transport chunks of one generation body
MaxEntries == 2      \* entries of the model list get_ollama_status is given
MaxDownloads == 2    \* entries of the client's active_downloads
MaxCalls == 2        \* server function calls of the client under way
MaxSends == 2        \* messages the user sends in one behaviour
MaxChatChunks == 2   \* chunks one reader loop of the client receives

(***************************************************************************)
(* Strings as character sequences: trim, starts_with, contains.            *)
(***************************************************************************)
IsWhitespace(c) == c = " "

RECURSIVE TrimStart(_)
TrimStart(s) ==
    IF s = <<>> THEN <<>>
    ELSE IF IsWhitespace(Head(s)) THEN TrimStart(Tail(s))
    ELSE s

RECURSIVE TrimEnd(_)
TrimEnd(s) ==
    IF s = <<>> THEN <<>>
    ELSE IF IsWhitespace(s[Len(s)]) THEN TrimEnd(SubSeq(s, 1, Len(s) - 1))
    ELSE s

\* variant: only trailing whitespace is removed
TrimEndOnly(s) == TrimEnd(s)

Trim(s) == TrimEnd(TrimStart(s))

StartsWith(s, p) == Len(p) <= Len(s) /\ SubSeq(s, 1, Len(p)) = p

\* variant: only a match at the start of the name counts
ContainsAsPrefix(s, p) == Len(p) <= Len(s) /\ SubSeq(s, 1, Len(p)) = p

Contains(s, p) ==
    \E i \in 1..(Len(s) - Len(p) + 1) : SubSeq(s, i, i + Len(p) - 1) = p

\* model names a caller may send
Names == { <<" ">>, <<"a">>, <<" ", "a">>, <<"b">> }

\* names the upstream may list as installed
Installed == { <<"a">>, <<"a", "b">> }

Keys == { Trim(n) : n \in Names } \ { <<>> }

(***************************************************************************)
(* JSON values and objects (serde_json::Value).                            *)
(***************************************************************************)
JMissing == [t |-> "missing", s |-> "", n |-> 0, b |-> FALSE]
JStr(x) == [t |-> "str", s |-> x, n |-> 0, b |-> FALSE]
JNum(x) == [t |-> "num", s |-> "", n |-> x, b |-> FALSE]
JBool(x) == [t |-> "bool", s |-> "", n |-> 0, b |-> x]

None == [some |-> FALSE, v |-> ""]
Some(x) == [some |-> TRUE, v |-> x]

\* Value::as_str, Value::as_u64, Value::as_bool
AsStr(j) == IF j.t = "str" THEN Some(j.s) ELSE None

\* variant: a missing count reads as 1
AsU64OrOne(j) == IF j.t = "num" /\ j.n >= 0 THEN [some |-> TRUE, v |-> j.n]
                 ELSE [some |-> FALSE, v |-> 1]

AsU64(j) == IF j.t = "num" /\ j.n >= 0 THEN [some |-> TRUE, v |-> j.n]
            ELSE [some |-> FALSE, v |-> 0]

AsBool(j) == IF j.t = "bool" THEN [some |-> TRUE, v |-> j.b]
             ELSE [some |-> FALSE, v |-> FALSE]

JObj(st, tot, comp, err, rsp, dn) ==
    [status |-> st, total |-> tot, completed |-> comp, error |-> err,
     response |-> rsp, done |-> dn]

NullObj == JObj(JMissing, JMissing, JMissing, JMissing, JMissing, JMissing)

(***************************************************************************)
(* Bytes on the wire: a serialised object is two symbols, "\n" is one.     *)
(***************************************************************************)
NL == [k |-> "nl", o |-> NullObj, h |-> 0]
Junk == [k |-> "junk", o |-> NullObj, h |-> 0]
Half(obj, i) == [k |-> "half", o |-> obj, h |-> i]

Ser(obj) == <<Half(obj, 1), Half(obj, 2)>>

\* serde_json::from_str::<Value>
ParseJson(line) ==
    IF /\ Len(line) = 2
       /\ line[1].k = "half" /\ line[1].h = 1
       /\ line[2].k = "half" /\ line[2].h = 2
       /\ line[1].o = line[2].o
    THEN [ok |-> TRUE, v |-> line[1].o]
    ELSE [ok |-> FALSE, v |-> NullObj]

IsJson(line) == ParseJson(line).ok

\* str::lines(): split at "\n"; a last piece without "\n" is a line when it
\* is not empty
RECURSIVE SplitLines(_, _)
SplitLines(s, cur) ==
    IF s = <<>> THEN (IF cur = <<>> THEN <<>> ELSE <<cur>>)
    ELSE IF Head(s) = NL THEN <<cur>> \o SplitLines(Tail(s), <<>>)
    ELSE SplitLines(Tail(s), Append(cur, Head(s)))

StrLines(text) == SplitLines(text, <<>>)

(***************************************************************************)
(* PullProgress and the progress store (a HashMap behind one Mutex).       *)
(***************************************************************************)
KB == 1024
MB == KB * 1024
GB == MB * 1024

\* format!("{:.1}", bytes / unit): one decimal, ties to even
Tenths(bytes, unit) ==
    LET q == (bytes * 10) \div unit
        r == (bytes * 10) % unit
    IN  IF 2 * r > unit THEN q + 1
        ELSE IF 2 * r = unit THEN q + (q % 2)
        ELSE q

format_bytes(bytes) ==
    IF bytes >= GB THEN [tenths |-> Tenths(bytes, GB), unit |-> "GB"]
    ELSE IF bytes >= MB THEN [tenths |-> Tenths(bytes, MB), unit |-> "MB"]
    ELSE IF bytes >= KB THEN [tenths |-> Tenths(bytes, KB), unit |-> "KB"]
    ELSE [tenths |-> bytes * 10, unit |-> "B"]

\* the speed string: "" or "<completed> / <total>"
NoSpeed == [shown |-> FALSE, got |-> format_bytes(0), of |-> format_bytes(0)]
SpeedLabel(completed, total) ==
    [shown |-> TRUE, got |-> format_bytes(completed), of |-> format_bytes(total)]

PullProgress(model, status, percent, done, error, bytes_downloaded, speed, last_update) ==
    [model |-> model, status |-> status, percent |-> percent, done |-> done,
     error |-> error, bytes_downloaded |-> bytes_downloaded, speed |-> speed,
     last_update |-> last_update]

\* variant: entry().or_insert(), which keeps a record that is already there
InsertIfAbsent(map, key, rec) ==
    [k \in (DOMAIN map) \cup {key} |-> IF k \in DOMAIN map THEN map[k] ELSE rec]

\* HashMap::insert
Insert(map, key, rec) ==
    [k \in (DOMAIN map) \cup {key} |-> IF k = key THEN rec ELSE map[k]]

EmptyStore == [k \in {} |-> PullProgress(<<>>, "", 0, FALSE, None, 0, NoSpeed, 0)]

\* variant: the quotient taken the wrong way round
PercentOfSwapped(completed, total) ==
    IF completed > 0 THEN (total * 100000) \div completed ELSE 0

\* (completed as f32 / total as f32) * 100.0, in thousandths of a percent
PercentOf(completed, total) == (completed * 100000) \div total

\* record returned for a name that is empty after trim
EmptyNameError(model_name) ==
    PullProgress(model_name, "Error", 0, TRUE,
                 Some("Model name cannot be empty"), 0, NoSpeed, 0)

\* record inserted, and returned, by start_model_pull
Starting(model) ==
    PullProgress(model, "Starting...", 0, FALSE, None, 0, NoSpeed, 0)

\* variant: the failure is recorded but the record is not terminal
ConnectErrorNotDone(model, e) ==
    PullProgress(model, "Error", 0, FALSE, Some(e), 0, NoSpeed, 0)

\* record written when the pull request cannot be sent
ConnectError(model, e) ==
    PullProgress(model, "Error", 0, TRUE, Some(e), 0, NoSpeed, 0)

\* variant: the percent of a finished download is left as computed
LineProgressKeepsPercent(model, json, now) ==
    LET status_text == IF AsStr(json.status).some THEN AsStr(json.status).v
                       ELSE ""
        total == AsU64(json.total).v
        completed == AsU64(json.completed).v
        percent == IF total > 0 THEN PercentOf(completed, total) ELSE 0
        speed == IF total > 0 /\ completed > 0 /\ completed < total
                 THEN SpeedLabel(completed, total) ELSE NoSpeed
        is_done == status_text = "success" \/ json.error.t # "missing"
        error == AsStr(json.error)
    IN  PullProgress(model,
                     IF is_done /\ ~error.some THEN "Complete" ELSE status_text,
                     percent, is_done, error, completed, speed, now)

\* record built from one parsed line of the pull body
LineProgress(model, json, now) ==
    LET status_text == IF AsStr(json.status).some THEN AsStr(json.status).v
                       ELSE ""
        total == AsU64(json.total).v
        completed == AsU64(json.completed).v
        percent == IF total > 0 THEN PercentOf(completed, total) ELSE 0
        speed == IF total > 0 /\ completed > 0 /\ completed < total
                 THEN SpeedLabel(completed, total) ELSE NoSpeed
        is_done == status_text = "success" \/ json.error.t # "missing"
        error == AsStr(json.error)
    IN  PullProgress(model,
                     IF is_done /\ ~error.some THEN "Complete" ELSE status_text,
                     IF is_done /\ ~error.some THEN 100000 ELSE percent,
                     is_done, error, completed, speed, now)

\* variant: a line that is not JSON ends the download with an error
ProcessLineMarksJunk(map, model, line, now) ==
    IF ParseJson(line).ok
    THEN Insert(map, model, LineProgress(model, ParseJson(line).v, now))
    ELSE Insert(map, model, ConnectError(model, "invalid line"))

\* body of the `for line in text.lines()` loop
ProcessLine(map, model, line, now) ==
    IF ParseJson(line).ok
    THEN Insert(map, model, LineProgress(model, ParseJson(line).v, now))
    ELSE map

\* variant: a cancelled record starts over at zero
CancelMarkResets(progress) ==
    [progress EXCEPT !.done = TRUE, !.status = "Cancelled",
                     !.error = Some("Download cancelled by user"),
                     !.percent = 0, !.bytes_downloaded = 0]

\* cancel_model_pull: the three assignments under `if let Some(progress)`
CancelMark(progress) ==
    [progress EXCEPT !.done = TRUE, !.status = "Cancelled",
                     !.error = Some("Download cancelled by user")]

\* variant: a missing key gets a cancelled record
CancelOrInsert(map, model) ==
    IF model \in DOMAIN map
    THEN [map EXCEPT ![model] = CancelMark(map[model])]
    ELSE Insert(map, model,
                CancelMark(PullProgress(model, "", 0, FALSE, None, 0, NoSpeed, 0)))

CancelInStore(map, model) ==
    IF model \in DOMAIN map
    THEN [map EXCEPT ![model] = CancelMark(map[model])]
    ELSE map

(***************************************************************************)
(* Status probe: get_ollama_status over the reply of /api/tags.            *)
(***************************************************************************)
TagEntries == { [t |-> "str", name |-> n] : n \in Installed }
                  \cup { [t |-> "missing", name |-> <<>>] }

TagLists == UNION { [1..n -> TagEntries] : n \in 0..MaxModels }

TagsReplies ==
    { [kind |-> "fail", hasModels |-> FALSE, entries |-> <<>>],
      [kind |-> "badjson", hasModels |-> FALSE, entries |-> <<>>],
      [kind |-> "json", hasModels |-> FALSE, entries |-> <<>>] }
    \cup { [kind |-> "json", hasModels |-> TRUE, entries |-> l] : l \in TagLists }

\* filter_map(|m| m["name"].as_str())
RECURSIVE FilterNames(_)
FilterNames(entries) ==
    IF entries = <<>> THEN <<>>
    ELSE IF Head(entries).t = "str"
         THEN <<Head(entries).name>> \o FilterNames(Tail(entries))
         ELSE FilterNames(Tail(entries))

get_ollama_status(reply) ==
    IF reply.kind = "fail" THEN [running |-> FALSE, models |-> <<>>]
    ELSE IF reply.kind = "json" /\ reply.hasModels
         THEN [running |-> TRUE, models |-> FilterNames(reply.entries)]
         ELSE [running |-> TRUE, models |-> <<>>]

\* every answer get_ollama_status may be given: send() fails ("fail"), the
\* body cannot be read to its end ("bodyfail"), the body is not JSON
\* ("badjson"), or it is JSON, with or without an array under "models",
\* whose entries have a string name, no name, or a name that is a number
StatusEntries == TagEntries \cup { [t |-> "num", name |-> <<>>] }

StatusLists == UNION { [1..n -> StatusEntries] : n \in 0..MaxEntries }

StatusReplies ==
    { [kind |-> k, hasModels |-> FALSE, entries |-> <<>>] :
          k \in {"fail", "bodyfail", "badjson", "json"} }
    \cup { [kind |-> "json", hasModels |-> TRUE, entries |-> l] : l \in StatusLists }

NoReply == [kind |-> "none", hasModels |-> FALSE, entries |-> <<>>]

\* variant: only a listed name equal to the model counts
FallbackExactName(model, status) ==
    LET model_exists == \E i \in 1..Len(status.models) : status.models[i] = model
    IN  IF model_exists
        THEN PullProgress(model, "Complete", 100000, TRUE, None, 0, NoSpeed, 0)
        ELSE PullProgress(model, "Waiting...", 0, FALSE, None, 0, NoSpeed, 0)

\* check_pull_progress: the fallback after the store lookup
FallbackProgress(model, status) ==
    LET model_exists == \E i \in 1..Len(status.models) :
                            \/ StartsWith(status.models[i], model)
                            \/ Contains(status.models[i], model)
    IN  IF model_exists
        THEN PullProgress(model, "Complete", 100000, TRUE, None, 0, NoSpeed, 0)
        ELSE PullProgress(model, "Waiting...", 0, FALSE, None, 0, NoSpeed, 0)

\* variant: the store is looked up under the name as given
check_pull_progress_untrimmed(map, model_name, status) ==
    IF model_name \in DOMAIN map THEN map[model_name]
    ELSE FallbackProgress(Trim(model_name), status)

check_pull_progress(map, model_name, status) ==
    LET model == Trim(model_name)
    IN  IF model \in DOMAIN map THEN map[model]
        ELSE FallbackProgress(model, status)

(***************************************************************************)
(* What the upstream pull endpoint may send.                               *)
(***************************************************************************)
PullObj(st, tot, comp, err) == JObj(st, tot, comp, err, JMissing, JMissing)

\* {total, completed} pairs: both missing, a zero total, or MaxTotal with a
\* completed count up to one byte more than the total
ByteCounts ==
    { <<JMissing, JMissing>>, <<JNum(0), JNum(1)>> }
    \cup { <<JNum(MaxTotal), JNum(c)>> : c \in 1..(MaxTotal + 1) }

PullStatuses == { JMissing, JStr("pulling"), JStr("success") }
PullErrors == { JMissing, JStr("boom"), JNum(5) }

\* a line with byte counts carries a status; a line with an error field
\* carries no byte counts
PullObjs ==
    { PullObj(st, bc[1], bc[2], JMissing) :
          st \in PullStatuses \ {JMissing}, bc \in ByteCounts }
    \cup { PullObj(st, JMissing, JMissing, er) :
              st \in PullStatuses \ {JStr("pulling")},
              er \in PullErrors \ {JMissing} }

Line(obj) == Ser(obj) \o <<NL>>

Pulling(c) == PullObj(JStr("pulling"), JNum(MaxTotal), JNum(c), JMissing)
Success == PullObj(JStr("success"), JMissing, JMissing, JMissing)

\* one transport chunk of the pull body: one whole line, two whole lines,
\* a line cut between two chunks, or a line that is not JSON
PullChunks ==
    { Line(o) : o \in PullObjs }
    \cup { Line(Pulling(1)) \o Line(Pulling(MaxTotal)) }
    \cup { <<Half(Success, 1)>>, <<Half(Success, 2), NL>> }
    \cup { <<Junk, NL>> }

\* one item of response.bytes_stream(): Ok(bytes) or Err
PullItems == { [ok |-> TRUE, bytes |-> c] : c \in PullChunks }
                 \cup { [ok |-> FALSE, bytes |-> <<>>] }

ConnectErrors == { "error sending request" }

Nows == 1..MaxNow

(***************************************************************************)
(* State.                                                                  *)
(*  store  : the map of PULL_PROGRESS                                      *)
(*  tasks  : the tasks spawned by start_model_pull, in spawn order         *)
(*  writer : per key, the origin of the record map.insert wrote last: the  *)
(*           task, and the parsed line it came from (NullObj for the       *)
(*           Starting and the connect-error record); history only          *)
(*  resp   : the value a server function has just returned, until its      *)
(*           caller takes it (op "none" otherwise); running and models are *)
(*           the StatusResponse of get_ollama_status, models also the list *)
(*           the fallback of check_pull_progress went through, reply the   *)
(*           answer of /api/tags that get_ollama_status was given          *)
(*  relay  : one stream of stream_handler                                  *)
(*  client : the signals of App the downloads and the chat go through      *)
(***************************************************************************)
NoRec == PullProgress(<<>>, "", 0, FALSE, None, 0, NoSpeed, 0)

NoResp == [op |-> "none", name |-> <<>>, rec |-> NoRec, ok |-> FALSE,
           probed |-> FALSE, models |-> <<>>,
           running |-> FALSE, reply |-> NoReply]

\* variant: the caller gets its answer only when the task has finished
TaskAwaited(key) == [key |-> key, phase |-> "ended", reads |-> 0, pending |-> <<>>,
                     body |-> <<>>, got |-> 0]

\* body, got: in SpecSplit, the bytes of the pull body and how many of them
\* the upstream has delivered; elsewhere the body is whatever arrives
Task(key) == [key |-> key, phase |-> "connecting", reads |-> 0, pending |-> <<>>,
              body |-> <<>>, got |-> 0]

\* phase: "idle" before the request, "reading" while the body streams, then
\* "eof" (body ended), "broken" (read error) or "unreachable" (no connection);
\* buf: bytes FramedRead holds; events: the SSE events yielded so far;
\* body: the bytes received so far (history); chunks: how many items
RelayIdle == [phase |-> "idle", buf |-> <<>>, events |-> <<>>, body |-> <<>>,
              chunks |-> 0]

NoWrite == [task |-> 0, line |-> NullObj]

Wrote(t, obj) == [task |-> t, line |-> obj]

\* the page after it has loaded: no download listed, no call to the server
\* under way, no chat response being read
ClientIdle ==
    [active_downloads |-> <<>>, calls |-> <<>>,
     selected_model |-> None, messages |-> <<>>,
     is_streaming |-> FALSE, readers |-> <<>>]

Init ==
    /\ store = EmptyStore
    /\ tasks = <<>>
    /\ writer = [k \in Keys |-> NoWrite]
    /\ resp = NoResp
    /\ relay = RelayIdle
    /\ client = ClientIdle

Live(t) == tasks[t].phase \in {"connecting", "reading"}

RECURSIVE SumReads(_)
SumReads(ts) == IF ts = <<>> THEN 0 ELSE Head(ts).reads + SumReads(Tail(ts))

\* replies of /api/tags the handlers of Spec see: the request fails, or a
\* list of well-formed entries comes back
WellFormedReplies ==
    { r \in TagsReplies :
        \/ r.kind = "fail"
        \/ /\ r.kind = "json" /\ r.hasModels
           /\ \A i \in 1..Len(r.entries) : r.entries[i].t = "str" }

(***************************************************************************)
(* start_model_pull                                                        *)
(***************************************************************************)
\* variant: the Error record of an empty name is also stored
StartRejectedStored(model_name) ==
    /\ resp = NoResp
    /\ Trim(model_name) = <<>>
    /\ store' = Insert(store, Trim(model_name), EmptyNameError(model_name))
    /\ resp' = [op |-> "start", name |-> model_name,
                rec |-> EmptyNameError(model_name), ok |-> TRUE,
                probed |-> FALSE, models |-> <<>>,
                running |-> FALSE, reply |-> NoReply]
    /\ UNCHANGED <<tasks, writer, relay, client>>

\* the early return for a name that is empty after trim: it comes before
\* the status probe, the insert and the spawn
StartRejected(model_name) ==
    /\ resp = NoResp
    /\ Trim(model_name) = <<>>
    /\ resp' = [op |-> "start", name |-> model_name,
                rec |-> EmptyNameError(model_name), ok |-> TRUE,
                probed |-> FALSE, models |-> <<>>,
                running |-> FALSE, reply |-> NoReply]
    /\ UNCHANGED <<store, tasks, writer, relay, client>>

\* variant: the task is spawned but no initial record is inserted
StartWithoutRecord(model_name) ==
    /\ resp = NoResp
    /\ Trim(model_name) # <<>>
    /\ Len(tasks) < MaxTasks
    /\ tasks' = Append(tasks, Task(Trim(model_name)))
    /\ resp' = [op |-> "start", name |-> model_name,
                rec |-> Starting(Trim(model_name)), ok |-> TRUE,
                probed |-> TRUE, models |-> <<>>,
                running |-> FALSE, reply |-> NoReply]
    /\ UNCHANGED <<store, writer, relay, client>>

\* the status probe only decides whether `ollama serve` is started first;
\* the insert, the spawn and the return follow without a suspension point
StartAccepted(model_name) ==
    /\ resp = NoResp
    /\ Trim(model_name) # <<>>
    /\ Len(tasks) < MaxTasks
    /\ \E reply \in WellFormedReplies :
         LET status == get_ollama_status(reply)
             model == Trim(model_name)
         IN  /\ store' = Insert(store, model, Starting(model))
             /\ tasks' = Append(tasks, Task(model))
             /\ writer' = [writer EXCEPT ![model] = Wrote(Len(tasks) + 1, NullObj)]
             /\ resp' = [op |-> "start", name |-> model_name,
                         rec |-> Starting(Trim(model_name)), ok |-> TRUE,
                         probed |-> TRUE, models |-> <<>>,
                         running |-> FALSE, reply |-> NoReply]
    /\ UNCHANGED <<relay, client>>

start_model_pull(model_name) ==
    StartRejected(model_name) \/ StartAccepted(model_name)

(***************************************************************************)
(* The task spawned by start_model_pull                                    *)
(***************************************************************************)
\* client.post(..).send() answers
TaskConnected(t) ==
    /\ resp = NoResp
    /\ tasks[t].phase = "connecting"
    /\ tasks' = [tasks EXCEPT ![t].phase = "reading"]
    /\ UNCHANGED <<store, writer, resp, relay, client>>

\* client.post(..).send() fails
TaskConnectFailed(t) ==
    /\ resp = NoResp
    /\ tasks[t].phase = "connecting"
    /\ \E e \in ConnectErrors :
         store' = Insert(store, tasks[t].key, ConnectError(tasks[t].key, e))
    /\ tasks' = [tasks EXCEPT ![t].phase = "ended"]
    /\ writer' = [writer EXCEPT ![tasks[t].key] = Wrote(t, NullObj)]
    /\ UNCHANGED <<resp, relay, client>>

\* one pass of the `while let Some(chunk)` loop over an item that holds n
\* bytes of the body: an Err item is dropped, the first line of an Ok item
\* is handled at once and the other lines are left pending
TaskTakes(t, item, n) ==
    LET lines == StrLines(item.bytes)
    IN  /\ IF item.ok /\ lines # <<>>
           THEN /\ \E now \in Nows :
                     store' = ProcessLine(store, tasks[t].key, Head(lines), now)
                /\ writer' = IF ParseJson(Head(lines)).ok
                             THEN [writer EXCEPT ![tasks[t].key] =
                                      Wrote(t, ParseJson(Head(lines)).v)]
                             ELSE writer
                /\ tasks' = [tasks EXCEPT ![t].pending = Tail(lines),
                                          ![t].reads = @ + 1,
                                          ![t].got = @ + n]
           ELSE /\ tasks' = [tasks EXCEPT ![t].reads = @ + 1,
                                          ![t].got = @ + n]
                /\ UNCHANGED <<store, writer, client>>
        /\ UNCHANGED <<resp, relay, client>>

\* stream.next() yields an item, one of `items`
TaskReadFrom(t, items) ==
    /\ resp = NoResp
    /\ tasks[t].phase = "reading"
    /\ tasks[t].pending = <<>>
    /\ SumReads(tasks) < MaxReads
    /\ \E item \in items : TaskTakes(t, item, 0)

TaskRead(t) == TaskReadFrom(t, PullItems)

\* the next line of a chunk that holds several lines
TaskLine(t) ==
    /\ resp = NoResp
    /\ tasks[t].phase = "reading"
    /\ tasks[t].pending # <<>>
    /\ \E now \in Nows :
         store' = ProcessLine(store, tasks[t].key, Head(tasks[t].pending), now)
    /\ writer' = IF ParseJson(Head(tasks[t].pending)).ok
                 THEN [writer EXCEPT ![tasks[t].key] =
                          Wrote(t, ParseJson(Head(tasks[t].pending)).v)]
                 ELSE writer
    /\ tasks' = [tasks EXCEPT ![t].pending = Tail(@)]
    /\ UNCHANGED <<resp, relay, client>>

\* variant: when the body ends the task sends its request again
TaskEndRetries(t) ==
    /\ resp = NoResp
    /\ tasks[t].phase = "reading"
    /\ tasks[t].pending = <<>>
    /\ tasks' = [tasks EXCEPT ![t].phase = "connecting"]
    /\ UNCHANGED <<store, writer, resp, relay, client>>

\* stream.next() yields None: the task returns
TaskEnd(t) ==
    /\ resp = NoResp
    /\ tasks[t].phase = "reading"
    /\ tasks[t].pending = <<>>
    /\ tasks' = [tasks EXCEPT ![t].phase = "ended"]
    /\ UNCHANGED <<store, writer, resp, relay, client>>

(***************************************************************************)
(* cancel_model_pull and check_pull_progress                               *)
(***************************************************************************)
\* variant: the record of a cancelled download is taken out of the store
cancel_model_pull_removes(model_name) ==
    /\ resp = NoResp
    /\ store' = [k \in DOMAIN store \ {Trim(model_name)} |-> store[k]]
    /\ resp' = [op |-> "cancel", name |-> model_name, rec |-> NoRec,
                ok |-> TRUE, probed |-> FALSE, models |-> <<>>,
                running |-> FALSE, reply |-> NoReply]
    /\ UNCHANGED <<tasks, writer, relay, client>>

\* the pkill that follows targets `ollama pull` processes, which this
\* program never starts: it changes nothing here
cancel_model_pull(model_name) ==
    /\ resp = NoResp
    /\ store' = CancelInStore(store, Trim(model_name))
    /\ resp' = [op |-> "cancel", name |-> model_name, rec |-> NoRec,
                ok |-> TRUE, probed |-> FALSE, models |-> <<>>,
                running |-> FALSE, reply |-> NoReply]
    /\ UNCHANGED <<tasks, writer, relay, client>>

CheckFound(model_name) ==
    /\ resp = NoResp
    /\ Trim(model_name) \in DOMAIN store
    /\ resp' = [op |-> "check", name |-> model_name,
                rec |-> check_pull_progress(store, model_name,
                                            get_ollama_status(
                                              [kind |-> "fail", hasModels |-> FALSE,
                                               entries |-> <<>>])),
                ok |-> TRUE, probed |-> FALSE, models |-> <<>>,
                running |-> FALSE, reply |-> NoReply]
    /\ UNCHANGED <<store, tasks, writer, relay, client>>

\* variant: the fallback record is kept in the store
CheckFallbackCached(model_name) ==
    /\ resp = NoResp
    /\ Trim(model_name) \notin DOMAIN store
    /\ \E reply \in WellFormedReplies :
         LET status == get_ollama_status(reply)
         IN  /\ resp' = [op |-> "check", name |-> model_name,
                         rec |-> check_pull_progress(store, model_name, status),
                         ok |-> TRUE, probed |-> TRUE, models |-> status.models,
                         running |-> FALSE, reply |-> NoReply]
             /\ store' = Insert(store, Trim(model_name),
                                check_pull_progress(store, model_name, status))
    /\ UNCHANGED <<tasks, writer, relay, client>>

\* no record for the key: the lock is released, /api/tags is asked
CheckFallback(model_name) ==
    /\ resp = NoResp
    /\ Trim(model_name) \notin DOMAIN store
    /\ \E reply \in WellFormedReplies :
         LET status == get_ollama_status(reply)
         IN  resp' = [op |-> "check", name |-> model_name,
                      rec |-> check_pull_progress(store, model_name, status),
                      ok |-> TRUE, probed |-> TRUE, models |-> status.models,
                      running |-> FALSE, reply |-> NoReply]
    /\ UNCHANGED <<store, tasks, writer, relay, client>>

CheckProgress(model_name) ==
    CheckFound(model_name) \/ CheckFallback(model_name)

\* the caller takes the returned value
Receive ==
    /\ resp # NoResp
    /\ resp' = NoResp
    /\ UNCHANGED <<store, tasks, writer, relay, client>>

Next ==
    \/ \E n \in Names : start_model_pull(n)
    \/ \E n \in Names : cancel_model_pull(n)
    \/ \E n \in Names : CheckProgress(n)
    \/ \E t \in 1..Len(tasks) : TaskConnected(t)
    \/ \E t \in 1..Len(tasks) : TaskConnectFailed(t)
    \/ \E t \in 1..Len(tasks) : TaskRead(t)
    \/ \E t \in 1..Len(tasks) : TaskLine(t)
    \/ \E t \in 1..Len(tasks) : TaskEnd(t)
    \/ Receive

Spec == Init /\ [][Next]_vars

(***************************************************************************)
(* SpecStatus: the server functions under every answer of /api/tags; the   *)
(* pull tasks are not scheduled.                                           *)
(***************************************************************************)
GetStatus ==
    /\ resp = NoResp
    /\ \E reply \in StatusReplies :
         LET status == get_ollama_status(reply)
         IN  resp' = [op |-> "status", name |-> <<>>, rec |-> NoRec,
                      ok |-> TRUE, probed |-> TRUE, models |-> status.models,
                      running |-> status.running, reply |-> reply]
    /\ UNCHANGED <<store, tasks, writer, relay, client>>

NextStatus ==
    \/ GetStatus
    \/ \E n \in Names : start_model_pull(n)
    \/ \E n \in Names : cancel_model_pull(n)
    \/ \E n \in Names : CheckProgress(n)
    \/ Receive

SpecStatus == Init /\ [][NextStatus]_vars

(***************************************************************************)
(* stream_handler: the generation relay.                                   *)
(***************************************************************************)
GenObj(rsp, dn) == JObj(JMissing, JMissing, JMissing, JMissing, rsp, dn)

GenResponses == { JMissing, JStr(""), JStr("Hi"), JStr(" there") }
GenDones == { JMissing, JBool(FALSE), JBool(TRUE) }

GenObjs == { GenObj(r, d) : r \in GenResponses, d \in GenDones }

\* the last line Ollama sends: an empty response and done = true
FinalObj == GenObj(JStr(""), JBool(TRUE))

\* one transport chunk of the generation body: a whole line, a line that is
\* not JSON, the final line cut in two, or the final line without its "\n"
GenChunks ==
    { Line(o) : o \in GenObjs }
    \cup { <<Junk, NL>> }
    \cup { <<Half(FinalObj, 1)>>, <<Half(FinalObj, 2), NL>> }
    \cup { Ser(FinalObj) }

\* LinesCodec::decode, repeated: the lines that end with "\n" ...
RECURSIVE FramedLines(_, _)
FramedLines(s, cur) ==
    IF s = <<>> THEN <<>>
    ELSE IF Head(s) = NL THEN <<cur>> \o FramedLines(Tail(s), <<>>)
    ELSE FramedLines(Tail(s), Append(cur, Head(s)))

\* ... and the bytes after the last "\n", which stay in the buffer
RECURSIVE FramedRest(_, _)
FramedRest(s, cur) ==
    IF s = <<>> THEN cur
    ELSE IF Head(s) = NL THEN FramedRest(Tail(s), <<>>)
    ELSE FramedRest(Tail(s), Append(cur, Head(s)))

\* LinesCodec::decode_eof: what is left in the buffer is the last line
EofLines(buf) == IF buf = <<>> THEN <<>> ELSE <<buf>>

END == "__END__"

\* variant: a line that is not JSON is passed on as an event
LineEventsEchoJunk(line) ==
    IF ParseJson(line).ok
    THEN LET json == ParseJson(line).v
         IN  (IF AsStr(json.response).some
              THEN <<AsStr(json.response).v>> ELSE <<>>)
             \o (IF AsBool(json.done).some /\ AsBool(json.done).v
                 THEN <<END>> ELSE <<>>)
    ELSE <<"">>

\* body of the `while let Some(Ok(line))` loop: the events one line yields
LineEvents(line) ==
    IF ParseJson(line).ok
    THEN LET json == ParseJson(line).v
         IN  (IF AsStr(json.response).some
              THEN <<AsStr(json.response).v>> ELSE <<>>)
             \o (IF AsBool(json.done).some /\ AsBool(json.done).v
                 THEN <<END>> ELSE <<>>)
    ELSE <<>>

RECURSIVE LinesEvents(_)
LinesEvents(lines) ==
    IF lines = <<>> THEN <<>>
    ELSE LineEvents(Head(lines)) \o LinesEvents(Tail(lines))

\* the request to /api/generate is answered
RelayOpen ==
    /\ relay.phase = "idle"
    /\ relay' = [relay EXCEPT !.phase = "reading"]
    /\ UNCHANGED <<store, tasks, writer, resp, client>>

\* variant: the error event is followed by the sentinel
RelayUnreachableWithEnd ==
    /\ relay.phase = "idle"
    /\ relay' = [relay EXCEPT !.phase = "unreachable",
                              !.events = <<"[Error: Ollama not reachable]", END>>]
    /\ UNCHANGED <<store, tasks, writer, resp, client>>

\* the request to /api/generate fails
RelayUnreachable ==
    /\ relay.phase = "idle"
    /\ relay' = [relay EXCEPT !.phase = "unreachable",
                              !.events = <<"[Error: Ollama not reachable]">>]
    /\ UNCHANGED <<store, tasks, writer, resp, client>>

\* the body delivers a chunk, one of `chunks`: every line it completes is
\* handled
RelayReadFrom(chunks) ==
    /\ relay.phase = "reading"
    /\ relay.chunks < MaxGenChunks
    /\ \E bytes \in chunks :
         relay' = [relay EXCEPT
                      !.buf = FramedRest(relay.buf \o bytes, <<>>),
                      !.events = @ \o LinesEvents(
                                        FramedLines(relay.buf \o bytes, <<>>)),
                      !.body = @ \o bytes,
                      !.chunks = @ + 1]
    /\ UNCHANGED <<store, tasks, writer, resp, client>>

RelayRead == RelayReadFrom(GenChunks)

\* variant: a read error closes the stream with the sentinel
RelayBrokenWithEnd ==
    /\ relay.phase = "reading"
    /\ relay' = [relay EXCEPT !.phase = "broken", !.buf = <<>>,
                              !.events = Append(@, END)]
    /\ UNCHANGED <<store, tasks, writer, resp, client>>

\* the body delivers a read error: lines.next() is Some(Err), the loop ends
RelayBroken ==
    /\ relay.phase = "reading"
    /\ relay' = [relay EXCEPT !.phase = "broken", !.buf = <<>>]
    /\ UNCHANGED <<store, tasks, writer, resp, client>>

\* variant: when the body ends the request is sent again
RelayEofReopens ==
    /\ relay.phase = "reading"
    /\ relay' = [relay EXCEPT !.phase = "idle", !.buf = <<>>,
                              !.events = @ \o LinesEvents(EofLines(relay.buf))]
    /\ UNCHANGED <<store, tasks, writer, resp, client>>

\* the body ends: decode_eof hands over the unfinished line, then None
RelayEof ==
    /\ relay.phase = "reading"
    /\ relay' = [relay EXCEPT !.phase = "eof", !.buf = <<>>,
                              !.events = @ \o LinesEvents(EofLines(relay.buf))]
    /\ UNCHANGED <<store, tasks, writer, resp, client>>

NextRelay ==
    \/ RelayOpen
    \/ RelayUnreachable
    \/ RelayRead
    \/ RelayBroken
    \/ RelayEof

SpecRelay == Init /\ [][NextRelay]_vars

(***************************************************************************)
(* SpecRelayWire: the relay when the model may generate any text, the      *)
(* text of the sentinel and of the error event included.                   *)
(***************************************************************************)
Unreachable == "[Error: Ollama not reachable]"

WireChunks ==
    GenChunks \cup { Line(GenObj(JStr(END), JBool(FALSE))),
                     Line(GenObj(JStr(Unreachable), JBool(FALSE))) }

NextRelayWire ==
    \/ RelayOpen
    \/ RelayUnreachable
    \/ RelayReadFrom(WireChunks)
    \/ RelayBroken
    \/ RelayEof

SpecRelayWire == Init /\ [][NextRelayWire]_vars

\* the upstream sends nothing more and keeps the connection open:
\* lines.next() stays pending
RelayStalls ==
    /\ relay.phase = "reading"
    /\ relay' = [relay EXCEPT !.phase = "stalled"]
    /\ UNCHANGED <<store, tasks, writer, resp, client>>

NextRelayFair == NextRelay \/ RelayStalls

\* the runtime keeps polling the relay stream: what the upstream does next,
\* a chunk, an error, the end of the body or silence, is taken up
SpecRelayFair == Init /\ [][NextRelayFair]_vars /\ WF_vars(NextRelayFair)

(***************************************************************************)
(* SpecCore: the store handlers with their pull tasks, and the generation  *)
(* relay.  stream_handler shares no state with the store, so the steps of  *)
(* the two commute: a behaviour runs the one or the other.                 *)
(***************************************************************************)
NextCore ==
    \/ relay.phase = "idle" /\ Next
    \/ tasks = <<>> /\ store = EmptyStore /\ resp = NoResp /\ NextRelay

SpecCore == Init /\ [][NextCore]_vars

(***************************************************************************)
(* SpecStream: one accepted download whose upstream sends only well-formed *)
(* progress lines, with a fixed total and a completed count that rises.    *)
(***************************************************************************)
\* a progress line: a status other than "success", no error field,
\* total > 0 and completed within the total
ValidProgress(j) ==
    /\ AsStr(j.status).some /\ AsStr(j.status).v # "success"
    /\ j.error = JMissing
    /\ AsU64(j.total).some /\ AsU64(j.total).v > 0
    /\ AsU64(j.completed).some /\ AsU64(j.completed).v <= AsU64(j.total).v

\* the lines are progress lines and completed rises from `last` on
RECURSIVE Rising(_, _)
Rising(lines, last) ==
    \/ lines = <<>>
    \/ /\ ParseJson(Head(lines)).ok
       /\ ValidProgress(ParseJson(Head(lines)).v)
       /\ AsU64(ParseJson(Head(lines)).v.completed).v > last
       /\ Rising(Tail(lines), AsU64(ParseJson(Head(lines)).v.completed).v)

RisingItems(t) ==
    { item \in PullItems :
        /\ item.ok
        /\ Rising(StrLines(item.bytes), store[tasks[t].key].bytes_downloaded) }

\* the state start_model_pull leaves behind for its first accepted call
InitStream ==
    \E k \in Keys :
        /\ store = Insert(EmptyStore, k, Starting(k))
        /\ tasks = <<Task(k)>>
        /\ writer = [x \in Keys |-> IF x = k THEN Wrote(1, NullObj) ELSE NoWrite]
        /\ resp = NoResp
        /\ relay = RelayIdle
        /\ client = ClientIdle

NextStream ==
    \/ \E t \in 1..Len(tasks) : TaskConnected(t)
    \/ \E t \in 1..Len(tasks) : TaskConnectFailed(t)
    \/ \E t \in 1..Len(tasks) : TaskReadFrom(t, RisingItems(t))
    \/ \E t \in 1..Len(tasks) : TaskLine(t)
    \/ \E t \in 1..Len(tasks) : TaskEnd(t)
    \/ \E n \in Names : cancel_model_pull(n)
    \/ \E n \in Names : CheckProgress(n)
    \/ Receive

SpecStream == InitStream /\ [][NextStream]_vars

(***************************************************************************)
(* SpecSplit: one accepted download whose pull body is fixed from the      *)
(* start; the transport cuts it into chunks wherever it likes.             *)
(***************************************************************************)
ErrorLine == PullObj(JMissing, JMissing, JMissing, JStr("boom"))

SplitBodies ==
    { Line(Success),
      Line(Pulling(1)) \o Line(Success),
      Line(ErrorLine),
      <<Junk, NL>> \o Line(Success) }

InitSplit ==
    \E k \in Keys, b \in SplitBodies :
        /\ store = Insert(EmptyStore, k, Starting(k))
        /\ tasks = <<[Task(k) EXCEPT !.body = b]>>
        /\ writer = [x \in Keys |-> IF x = k THEN Wrote(1, NullObj) ELSE NoWrite]
        /\ resp = NoResp
        /\ relay = RelayIdle
        /\ client = ClientIdle

\* stream.next() yields the next n bytes of the body
TaskReadCut(t) ==
    /\ resp = NoResp
    /\ tasks[t].phase = "reading"
    /\ tasks[t].pending = <<>>
    /\ tasks[t].got < Len(tasks[t].body)
    /\ \E n \in 1..(Len(tasks[t].body) - tasks[t].got) :
         TaskTakes(t, [ok |-> TRUE,
                       bytes |-> SubSeq(tasks[t].body, tasks[t].got + 1,
                                        tasks[t].got + n)], n)

\* stream.next() yields an Err item: no bytes of the body come with it
TaskReadErr(t) ==
    /\ resp = NoResp
    /\ tasks[t].phase = "reading"
    /\ tasks[t].pending = <<>>
    /\ tasks[t].reads < MaxReads
    /\ TaskTakes(t, [ok |-> FALSE, bytes |-> <<>>], 0)

\* stream.next() yields None once the whole body has been delivered
TaskEndOfBody(t) ==
    /\ tasks[t].got = Len(tasks[t].body)
    /\ TaskEnd(t)

NextSplit ==
    \/ \E t \in 1..Len(tasks) : TaskConnected(t)
    \/ \E t \in 1..Len(tasks) : TaskReadCut(t)
    \/ \E t \in 1..Len(tasks) : TaskReadErr(t)
    \/ \E t \in 1..Len(tasks) : TaskLine(t)
    \/ \E t \in 1..Len(tasks) : TaskEndOfBody(t)

SpecSplit == InitSplit /\ [][NextSplit]_vars

(***************************************************************************)
(* The client (App in src/src/app.rs): the list of downloads it shows.     *)
(*  client.active_downloads : the signal of that name, a Vec<PullProgress> *)
(*  client.calls            : the server function calls under way, each    *)
(*                            sent by a spawn_local future; a call to      *)
(*                            check_pull_progress is answered first and    *)
(*                            its answer taken later                       *)
(***************************************************************************)
\* js_sys::Date::now(), in milliseconds
ClientNows == { 1000 * n : n \in 1..(MaxNow + 1) }

NoRate == [shown |-> FALSE, tenths |-> 0, unit |-> "B"]

\* the speed string of the client: "{:.1} GB/s" and so on, as tenths and
\* unit; the rate is kept in kB per second, truncated
Rate(kbytes_per_sec) ==
    IF kbytes_per_sec > 1000000
    THEN [shown |-> TRUE, tenths |-> kbytes_per_sec \div 100000, unit |-> "GB/s"]
    ELSE IF kbytes_per_sec > 1000
    THEN [shown |-> TRUE, tenths |-> kbytes_per_sec \div 100, unit |-> "MB/s"]
    ELSE IF kbytes_per_sec > 1
    THEN [shown |-> TRUE, tenths |-> kbytes_per_sec * 10, unit |-> "KB/s"]
    ELSE [shown |-> TRUE, tenths |-> kbytes_per_sec * 10000, unit |-> "B/s"]

\* a model is taken to be 4 GB: a thousandth of a percent is 40 kB
EstimatedSpeed(d, progress, now) ==
    LET time_diff == IF d.last_update > 0
                     THEN (now - d.last_update) \div 1000 ELSE 0
        percent_diff == progress.percent - d.percent
    IN  IF time_diff > 0 /\ percent_diff > 0
        THEN Rate((percent_diff * 40) \div time_diff)
        ELSE NoRate

\* the entry start_download pushes
Listed(model) ==
    PullProgress(model, "Starting...", 0, FALSE, None, 0, NoRate, 0)

Call(fn, model) ==
    [fn |-> fn, model |-> model, answered |-> FALSE, reply |-> NoRec]

RemoveAt(s, i) == SubSeq(s, 1, i - 1) \o SubSeq(s, i + 1, Len(s))

\* iter_mut().find(|d| d.model == model): the first entry of that model,
\* 0 when there is none
FindModel(downloads, model) ==
    IF \E j \in 1..Len(downloads) : downloads[j].model = model
    THEN CHOOSE j \in 1..Len(downloads) :
             /\ downloads[j].model = model
             /\ \A h \in 1..(j - 1) : downloads[h].model # model
    ELSE 0

\* the entries the page renders a bar for
Shown(d) == ~d.done \/ d.error.some

start_download(model_name) ==
    /\ Trim(model_name) # <<>>
    /\ ~\E j \in 1..Len(client.active_downloads) :
           /\ client.active_downloads[j].model = Trim(model_name)
           /\ ~client.active_downloads[j].done
    /\ Len(client.active_downloads) < MaxDownloads
    /\ Len(client.calls) < MaxCalls
    /\ client' = [client EXCEPT
                     !.active_downloads = Append(@, Listed(Trim(model_name))),
                     !.calls = Append(@, Call("start_model_pull",
                                              Trim(model_name)))]
    /\ UNCHANGED <<store, tasks, writer, resp, relay>>

\* the entries check_progress asks the server about
Pending == SelectSeq(client.active_downloads, LAMBDA d : ~d.done)

\* the timer fires: one call per entry that is not done
check_progress ==
    /\ Pending # <<>>
    /\ Len(client.calls) + Len(Pending) <= MaxCalls
    /\ client' = [client EXCEPT
                     !.calls = @ \o [j \in 1..Len(Pending) |->
                                        Call("check_pull_progress",
                                             Pending[j].model)]]
    /\ UNCHANGED <<store, tasks, writer, resp, relay>>

\* the Ok(progress) arm of a poll: the answer is written into the first
\* entry of that model
PollUpdate(downloads, model, progress, now) ==
    LET j == FindModel(downloads, model)
    IN  IF j = 0 THEN downloads
        ELSE [downloads EXCEPT
                 ![j] = [@ EXCEPT
                            !.status = progress.status,
                            !.percent = progress.percent,
                            !.done = progress.done,
                            !.error = progress.error,
                            !.speed = EstimatedSpeed(downloads[j], progress, now),
                            !.last_update = now]]

PollResponse(i) ==
    /\ client.calls[i].fn = "check_pull_progress"
    /\ client.calls[i].answered
    /\ \E now \in ClientNows :
         client' = [client EXCEPT
                       !.active_downloads =
                           PollUpdate(@, client.calls[i].model,
                                      client.calls[i].reply, now),
                       !.calls = RemoveAt(@, i)]
    /\ UNCHANGED <<store, tasks, writer, resp, relay>>

\* the cancel button of a bar: the call is sent, the first entry of that
\* model is marked
CancelClick(j) ==
    /\ ~client.active_downloads[j].done
    /\ client.active_downloads[j].status \notin {"Complete", "Cancelled"}
    /\ Len(client.calls) < MaxCalls
    /\ client' = [client EXCEPT
                     !.active_downloads =
                         [@ EXCEPT ![FindModel(@, @[j].model)] =
                                      [@ EXCEPT !.done = TRUE,
                                                !.status = "Cancelled"]],
                     !.calls = Append(@, Call("cancel_model_pull",
                                              client.active_downloads[j].model))]
    /\ UNCHANGED <<store, tasks, writer, resp, relay>>

\* the hide button of a bar: every entry of that model leaves the list
HideClick(j) ==
    /\ Shown(client.active_downloads[j])
    /\ client' = [client EXCEPT
                     !.active_downloads =
                         SelectSeq(@, LAMBDA e :
                                      e.model # client.active_downloads[j].model)]
    /\ UNCHANGED <<store, tasks, writer, resp, relay>>

\* the server runs start_model_pull for a call of the client; the client
\* drops the answer
ServeStart(i) ==
    /\ client.calls[i].fn = "start_model_pull"
    /\ Len(tasks) < MaxTasks
    /\ store' = Insert(store, Trim(client.calls[i].model),
                       Starting(Trim(client.calls[i].model)))
    /\ tasks' = Append(tasks, Task(Trim(client.calls[i].model)))
    /\ writer' = [writer EXCEPT ![Trim(client.calls[i].model)] =
                     Wrote(Len(tasks) + 1, NullObj)]
    /\ client' = [client EXCEPT !.calls = RemoveAt(@, i)]
    /\ UNCHANGED <<resp, relay>>

\* the server runs cancel_model_pull for a call of the client
ServeCancel(i) ==
    /\ client.calls[i].fn = "cancel_model_pull"
    /\ store' = CancelInStore(store, Trim(client.calls[i].model))
    /\ client' = [client EXCEPT !.calls = RemoveAt(@, i)]
    /\ UNCHANGED <<tasks, writer, resp, relay>>

\* the server runs check_pull_progress for a call of the client
ServeCheck(i) ==
    /\ client.calls[i].fn = "check_pull_progress"
    /\ ~client.calls[i].answered
    /\ \E reply \in WellFormedReplies :
         client' = [client EXCEPT
                       !.calls[i].answered = TRUE,
                       !.calls[i].reply =
                           check_pull_progress(store, client.calls[i].model,
                                               get_ollama_status(reply))]
    /\ UNCHANGED <<store, tasks, writer, resp, relay>>

\* SpecDownloads: the client and the server functions it calls; a pull task
\* of the server fails to connect, or has not connected yet
NextDownloads ==
    \/ \E model_name \in Names : start_download(model_name)
    \/ check_progress
    \/ \E i \in 1..Len(client.calls) : PollResponse(i)
    \/ \E j \in 1..Len(client.active_downloads) : CancelClick(j)
    \/ \E j \in 1..Len(client.active_downloads) : HideClick(j)
    \/ \E i \in 1..Len(client.calls) : ServeStart(i)
    \/ \E i \in 1..Len(client.calls) : ServeCancel(i)
    \/ \E i \in 1..Len(client.calls) : ServeCheck(i)
    \/ \E t \in 1..Len(tasks) : TaskConnectFailed(t)

SpecDownloads == Init /\ [][NextDownloads]_vars

(***************************************************************************)
(* The client (App in src/src/app.rs): the chat.                           *)
(*  client.selected_model : the signal of that name                        *)
(*  client.messages       : the signal of that name                        *)
(*  client.is_streaming   : the signal of that name                        *)
(*  client.readers        : the futures do_send has spawned, in spawn      *)
(*                          order, each with its full_text                 *)
(***************************************************************************)
\* what the user may have typed
Inputs == { <<"h", "i">>, <<" ">> }

EndData == <<"_", "_", "E", "N", "D", "_", "_">>

\* the payloads of the events of /api/stream
SsePayloads == { <<"H", "i">>, <<" ", "y", "o">>, <<>>, EndData }

\* a line of the body: "data: <payload>", or the empty line after an event
DataLine(payload) == [data |-> TRUE, rest |-> <<" ">> \o payload]
Blank == [data |-> FALSE, rest |-> <<>>]

SseEvent(payload) == <<DataLine(payload), Blank>>

\* one chunk reader.read() resolves to: one event, or two
ChatChunks ==
    { SseEvent(p) : p \in SsePayloads }
    \cup { SseEvent(<<"H", "i">>) \o SseEvent(EndData),
           SseEvent(EndData) \o SseEvent(<<"H", "i">>) }

ChatMessage(role, text) == [role |-> role, text |-> text]

Reader == [phase |-> "fetching", full_text |-> <<>>, chunks |-> 0]

\* the `for line in text.lines()` loop over one chunk: the full_text it
\* leaves, and whether it met "__END__"
RECURSIVE Digest(_, _)
Digest(lines, full_text) ==
    IF lines = <<>> THEN [full_text |-> full_text, ended |-> FALSE]
    ELSE IF ~Head(lines).data THEN Digest(Tail(lines), full_text)
    ELSE IF Trim(Head(lines).rest) = EndData
    THEN [full_text |-> full_text, ended |-> TRUE]
    ELSE IF Trim(Head(lines).rest) = <<>>
    THEN [full_text |-> full_text, ended |-> FALSE]
    ELSE Digest(Tail(lines), full_text \o Trim(Head(lines).rest) \o <<" ">>)

\* msgs.last_mut() gets the text when it is a message of the AI
SetLastText(msgs, text) ==
    IF msgs # <<>> /\ msgs[Len(msgs)].role = "ai"
    THEN [msgs EXCEPT ![Len(msgs)].text = text]
    ELSE msgs

\* the effect that selects the first model once the status has loaded
AutoSelect ==
    /\ ~client.selected_model.some
    /\ \E m \in Installed : client' = [client EXCEPT !.selected_model = Some(m)]
    /\ UNCHANGED <<store, tasks, writer, resp, relay>>

do_send(text) ==
    /\ Trim(text) # <<>>
    /\ client.selected_model.some
    /\ ~client.is_streaming
    /\ Len(client.readers) < MaxSends
    /\ client' = [client EXCEPT
                     !.messages = @ \o <<ChatMessage("user", text),
                                         ChatMessage("ai", <<>>)>>,
                     !.is_streaming = TRUE,
                     !.readers = Append(@, Reader)]
    /\ UNCHANGED <<store, tasks, writer, resp, relay>>

\* fetch resolves to a response with a body
FetchOk(r) ==
    /\ client.readers[r].phase = "fetching"
    /\ client' = [client EXCEPT !.readers[r].phase = "reading"]
    /\ UNCHANGED <<store, tasks, writer, resp, relay>>

\* fetch fails, or the response has no body
FetchFailed(r) ==
    /\ client.readers[r].phase = "fetching"
    /\ client' = [client EXCEPT !.readers[r].phase = "stopped",
                                !.is_streaming = FALSE]
    /\ UNCHANGED <<store, tasks, writer, resp, relay>>

\* reader.read() resolves to a chunk; "__END__" leaves the loop over the
\* lines of the chunk, never the loop over the chunks
ReadChunk(r) ==
    /\ client.readers[r].phase = "reading"
    /\ client.readers[r].chunks < MaxChatChunks
    /\ \E chunk \in ChatChunks :
         client' = [client EXCEPT
                       !.readers[r].full_text = Digest(chunk, @).full_text,
                       !.readers[r].chunks = @ + 1,
                       !.messages =
                           IF Digest(chunk, client.readers[r].full_text).full_text
                                  # client.readers[r].full_text
                           THEN SetLastText(@, Digest(chunk,
                                    client.readers[r].full_text).full_text)
                           ELSE @,
                       !.is_streaming =
                           IF Digest(chunk, client.readers[r].full_text).ended
                           THEN FALSE ELSE @]
    /\ UNCHANGED <<store, tasks, writer, resp, relay>>

\* reader.read() resolves to done, or fails: the loop is left
ReadDone(r) ==
    /\ client.readers[r].phase = "reading"
    /\ client' = [client EXCEPT !.readers[r].phase = "stopped",
                                !.is_streaming = FALSE]
    /\ UNCHANGED <<store, tasks, writer, resp, relay>>

NextChat ==
    \/ AutoSelect
    \/ \E text \in Inputs : do_send(text)
    \/ \E r \in 1..Len(client.readers) : FetchOk(r)
    \/ \E r \in 1..Len(client.readers) : FetchFailed(r)
    \/ \E r \in 1..Len(client.readers) : ReadChunk(r)
    \/ \E r \in 1..Len(client.readers) : ReadDone(r)

SpecChat == Init /\ [][NextChat]_vars

(***************************************************************************)
(* Properties of the progress store and its handlers.                      *)
(***************************************************************************)
\* the step is an accepted start_model_pull for key k
StartsKey(k) ==
    /\ Len(tasks') = Len(tasks) + 1
    /\ tasks'[Len(tasks')].key = k

SameProgress(p, q) ==
    /\ p.status = q.status /\ p.percent = q.percent /\ p.done = q.done
    /\ p.error = q.error /\ p.bytes_downloaded = q.bytes_downloaded
    /\ p.speed = q.speed

\* C1: once a stored record has done = TRUE, no step other than a fresh
\* start_model_pull for its key changes its status, percent, done, error,
\* bytes_downloaded or speed.
C1_DoneIsFrozen ==
    [][\A k \in DOMAIN store :
          (store[k].done /\ ~StartsKey(k)) =>
              (k \in DOMAIN store' /\ SameProgress(store'[k], store[k]))]_vars

LiveWriters(k) == { t \in 1..Len(tasks) : Live(t) /\ tasks[t].key = k }

\* C2: in every reachable state at most one live pull task writes the record
\* of a given key.
C2_OneWriterPerKey == \A k \in Keys : Cardinality(LiveWriters(k)) <= 1

\* what check_pull_progress returns in the state reached by the step,
\* whatever /api/tags replies
ChecksNonTerminal(map, model_name) ==
    \A reply \in WellFormedReplies :
        LET r == check_pull_progress(map, model_name, get_ollama_status(reply))
        IN  ~r.done /\ r.percent = 0

\* C3 as stated: for every model name, check_pull_progress right after
\* start_model_pull returns done = FALSE and percent = 0.
C3_StartThenCheckAnyName ==
    [][(resp.op = "none" /\ resp'.op = "start") =>
          ChecksNonTerminal(store', resp'.name)]_vars

\* C3 amended: for every model name that is not empty after trim,
\* check_pull_progress right after start_model_pull returns done = FALSE and
\* percent = 0.
C3_StartThenCheck ==
    [][(resp.op = "none" /\ resp'.op = "start" /\ Trim(resp'.name) # <<>>) =>
          ChecksNonTerminal(store', resp'.name)]_vars

C3_Witness ==
    /\ resp.op = "start"
    /\ resp.name = <<" ", "a">>
    /\ <<"a">> \in DOMAIN store
    /\ writer[<<"a">>].task = 2
    /\ ChecksNonTerminal(store, resp.name)

\* C4: while the pull body is a sequence of progress lines with a fixed
\* total > 0 and a strictly increasing completed, the percent of the stored
\* record, which is the percent every poll returns, never decreases and
\* stays within 0 and 100.
C4_PercentMonotone ==
    [][/\ \A k \in DOMAIN store :
            /\ store'[k].percent >= store[k].percent
            /\ store'[k].percent >= 0 /\ store'[k].percent <= 100000
       /\ (resp'.op = "check" /\ Trim(resp'.name) \in DOMAIN store) =>
              resp'.rec.percent = store[Trim(resp'.name)].percent]_vars

C4_Witness ==
    \E k \in DOMAIN store :
        /\ tasks[1].reads = 2
        /\ tasks[1].pending = <<>>
        /\ writer[k] = Wrote(1, Pulling(MaxTotal))
        /\ store[k].percent = 100000
        /\ resp.op = "check" /\ resp.rec.percent = 100000

\* the record of k is the one its last line produced: no cancel since
FromLine(k) ==
    /\ k \in DOMAIN store
    /\ writer[k].task # 0
    /\ writer[k].line # NullObj
    /\ store[k].status # "Cancelled"

\* C5 as stated: a record produced by a line whose status is "success" has
\* percent = 100, done = TRUE and error = None, whatever else the line holds.
C5_SuccessAnyFields ==
    \A k \in Keys :
        (FromLine(k) /\ AsStr(writer[k].line.status) = Some("success")) =>
            /\ store[k].percent = 100000
            /\ store[k].done
            /\ store[k].error = None

\* C5 amended: a record produced by a line whose status is "success" and
\* whose error field is not a string has percent = 100, done = TRUE and
\* error = None, whatever completed and total the line holds.
C5_SuccessForcesComplete ==
    \A k \in Keys :
        (/\ FromLine(k)
         /\ AsStr(writer[k].line.status) = Some("success")
         /\ ~AsStr(writer[k].line.error).some) =>
            /\ store[k].percent = 100000
            /\ store[k].done
            /\ store[k].error = None

C5_Witness ==
    \E k \in Keys :
        /\ FromLine(k)
        /\ writer[k].line =
              PullObj(JStr("success"), JNum(MaxTotal), JNum(1), JMissing)
        /\ store[k].percent = 100000
        /\ store[k].bytes_downloaded = 1

\* C6: a record produced by a line that holds an error field has
\* done = TRUE, status "Error" and a non-empty error text.
C6_ErrorLineMarksError ==
    \A k \in Keys :
        (FromLine(k) /\ writer[k].line.error # JMissing) =>
            /\ store[k].done
            /\ store[k].status = "Error"
            /\ store[k].error.some /\ store[k].error.v # ""

\* C7: cancel_model_pull returns true; on a key whose record is not done it
\* sets done = TRUE and status "Cancelled"; on a key with no record it leaves
\* the key without a record.
C7_CancelMarks ==
    [][(resp.op = "none" /\ resp'.op = "cancel") =>
          LET k == Trim(resp'.name)
          IN  /\ resp'.ok
              /\ (k \in DOMAIN store /\ ~store[k].done) =>
                    (/\ k \in DOMAIN store'
                     /\ store'[k].done
                     /\ store'[k].status = "Cancelled")
              /\ k \notin DOMAIN store => k \notin DOMAIN store']_vars

\* a cancel of a key without a record has just returned, while the record
\* of another key, written from a progress line, was cancelled before
C7_Witness ==
    /\ resp.op = "cancel" /\ resp.ok
    /\ Trim(resp.name) \notin DOMAIN store
    /\ \E k \in DOMAIN store :
          /\ store[k].status = "Cancelled" /\ store[k].done
          /\ ValidProgress(writer[k].line)

InList(models, m) == \E i \in 1..Len(models) : models[i] = m
ListedAsSubstring(models, m) == \E i \in 1..Len(models) : Contains(models[i], m)

\* C8 as stated: with no record for m, check_pull_progress returns
\* done = TRUE, percent = 100 when m is in the model list, and done = FALSE,
\* percent = 0, status "Waiting..." when it is not.
C8_FallbackByMembership ==
    (resp.op = "check" /\ resp.probed) =>
        IF InList(resp.models, Trim(resp.name))
        THEN resp.rec.done /\ resp.rec.percent = 100000
        ELSE /\ ~resp.rec.done /\ resp.rec.percent = 0
             /\ resp.rec.status = "Waiting..."

\* C8 amended: with no record for m, check_pull_progress returns
\* done = TRUE, percent = 100 when some listed model name contains the
\* trimmed m, and done = FALSE, percent = 0, status "Waiting..." when none
\* does.
C8_FallbackBySubstring ==
    (resp.op = "check" /\ resp.probed) =>
        /\ Trim(resp.name) \notin DOMAIN store
        /\ IF ListedAsSubstring(resp.models, Trim(resp.name))
           THEN resp.rec.done /\ resp.rec.percent = 100000
           ELSE /\ ~resp.rec.done /\ resp.rec.percent = 0
                /\ resp.rec.status = "Waiting..."

C8_Witness ==
    /\ resp.op = "check" /\ resp.probed
    /\ resp.name = <<"b">>
    /\ resp.models = << <<"a", "b">> >>
    /\ resp.rec.done /\ resp.rec.percent = 100000
    /\ <<"a">> \in DOMAIN store

\* C9: start_model_pull for a key that has a record, in whatever state,
\* replaces it by status "Starting...", percent 0, done FALSE, error None,
\* and nothing of the old record is kept.
C9_RestartOverwrites ==
    [][(/\ resp.op = "none" /\ resp'.op = "start"
        /\ Trim(resp'.name) # <<>>
        /\ Trim(resp'.name) \in DOMAIN store) =>
          store'[Trim(resp'.name)] =
              [model |-> Trim(resp'.name), status |-> "Starting...",
               percent |-> 0, done |-> FALSE, error |-> None,
               bytes_downloaded |-> 0, speed |-> NoSpeed,
               last_update |-> 0]]_vars

\* the second start for a key whose first task has ended
C9_Witness ==
    /\ resp.op = "start"
    /\ Len(tasks) = 2
    /\ tasks[1].key = Trim(resp.name) /\ tasks[2].key = Trim(resp.name)
    /\ tasks[1].phase = "ended" /\ tasks[1].reads > 0
    /\ store[Trim(resp.name)] = resp.rec

\* C15: start_model_pull with a name that is empty after trim returns a
\* record with done = TRUE, status "Error" and an error text; it leaves the
\* store as it was, sends no request to /api/tags and spawns no task, so
\* that no request to /api/pull follows from it.
C15_EmptyNameRejected ==
    [][(resp.op = "none" /\ resp'.op = "start" /\ Trim(resp'.name) = <<>>) =>
          /\ resp'.rec.done
          /\ resp'.rec.status = "Error"
          /\ resp'.rec.error.some
          /\ store' = store
          /\ ~resp'.probed
          /\ tasks' = tasks]_vars

\* an empty name has been rejected while a download is under way
C15_Witness ==
    /\ resp.op = "start" /\ Trim(resp.name) = <<>>
    /\ resp.rec.done /\ resp.rec.status = "Error"
    /\ \E t \in 1..Len(tasks) :
          /\ tasks[t].phase = "reading"
          /\ ~store[tasks[t].key].done

\* C16: when the request of a pull task to /api/pull fails, the step leaves
\* the record of the task's key with done = TRUE, status "Error" and the
\* message of the transport error as error.
C16_ConnectFailureMarksError ==
    [][\A t \in 1..Len(tasks) :
          (tasks[t].phase = "connecting" /\ tasks'[t].phase = "ended") =>
              /\ tasks[t].key \in DOMAIN store'
              /\ store'[tasks[t].key].done
              /\ store'[tasks[t].key].status = "Error"
              /\ store'[tasks[t].key].error.some
              /\ store'[tasks[t].key].error.v \in ConnectErrors]_vars

\* the request of the second task for a key has failed after the first
\* task wrote a progress line
C16_Witness ==
    \E k \in DOMAIN store :
        /\ Len(tasks) = 2
        /\ tasks[1].key = k /\ tasks[2].key = k
        /\ tasks[1].reads > 0
        /\ tasks[2].phase = "ended" /\ tasks[2].reads = 0
        /\ writer[k] = Wrote(2, NullObj)
        /\ store[k].status = "Error" /\ store[k].done
        /\ store[k].error.v \in ConnectErrors

TasksOf(k) == { t \in 1..Len(tasks) : tasks[t].key = k }

\* C17: once the pull response of every task started for a key has ended,
\* by a success line, an error line, a failed request or the body closing
\* or breaking, the record of the key has done = TRUE: nothing is left that
\* would set it later, so a caller that polls until done = TRUE stops.
C17_EndedMeansDone ==
    \A k \in DOMAIN store :
        (TasksOf(k) # {} /\ LiveWriters(k) = {}) => store[k].done

\* C18: check_pull_progress leaves the store as it was, for every store and
\* every model name, whether it finds a record or falls back to the model
\* list.
C18_CheckKeepsStore ==
    [][(resp.op = "none" /\ resp'.op = "check") => store' = store]_vars

\* a check of a key without a record has returned the fallback record while
\* another key has a record that is not done
C18_Witness ==
    /\ resp.op = "check" /\ resp.probed
    /\ Trim(resp.name) \notin DOMAIN store
    /\ resp.rec.status = "Complete"
    /\ \E k \in DOMAIN store : ~store[k].done /\ FromLine(k)

\* C19: when the store holds a record for the trimmed name,
\* check_pull_progress returns that record as it is stored at the moment of
\* the read, every field of it, and does not ask /api/tags.
C19_CheckReturnsStored ==
    [][(/\ resp.op = "none" /\ resp'.op = "check"
        /\ Trim(resp'.name) \in DOMAIN store) =>
          /\ resp'.rec = store[Trim(resp'.name)]
          /\ ~resp'.probed]_vars

\* a check under a name with a leading blank has returned the record that
\* the second task of the key wrote from a progress line
C19_Witness ==
    /\ resp.op = "check" /\ ~resp.probed
    /\ resp.name = <<" ", "a">>
    /\ resp.rec = store[<<"a">>]
    /\ writer[<<"a">>].task = 2
    /\ FromLine(<<"a">>)
    /\ resp.rec.percent > 0 /\ ~resp.rec.done

\* C20: in every reachable state the percent of every stored record lies
\* between 0 and 100, whatever completed and total the pull body reports.
C20_PercentInRange ==
    \A k \in DOMAIN store :
        store[k].percent >= 0 /\ store[k].percent <= 100000

\* C21: start_model_pull for a name that is not empty after trim returns
\* the record "Starting...", percent 0, done FALSE, which is the record it
\* has inserted under the trimmed name, and the task it has spawned has not
\* sent its request, read a chunk or finished when the call returns.
C21_StartReturnsAtOnce ==
    [][(/\ resp.op = "none" /\ resp'.op = "start"
        /\ Trim(resp'.name) # <<>>) =>
          /\ resp'.rec.status = "Starting..."
          /\ resp'.rec.percent = 0
          /\ ~resp'.rec.done
          /\ store'[Trim(resp'.name)] = resp'.rec
          /\ Len(tasks') = Len(tasks) + 1
          /\ tasks'[Len(tasks')].key = Trim(resp'.name)
          /\ tasks'[Len(tasks')].phase = "connecting"
          /\ tasks'[Len(tasks')].reads = 0]_vars

\* the first start has returned and its task has taken no step
C21_Witness ==
    /\ resp.op = "start" /\ Trim(resp.name) # <<>>
    /\ Len(tasks) = 1
    /\ tasks[1] = Task(Trim(resp.name))
    /\ store[Trim(resp.name)] = resp.rec
    /\ resp.rec.status = "Starting..."

IsStrEntry(e) == e.t = "str"

NamesOf(entries) ==
    [i \in 1..Len(SelectSeq(entries, IsStrEntry)) |->
        SelectSeq(entries, IsStrEntry)[i].name]

\* the request to /api/tags failed in transport: it could not be sent, or
\* the body could not be read to its end
TransportFailed(reply) == reply.kind \in {"fail", "bodyfail"}

\* C22: get_ollama_status always returns Ok; after any transport failure of
\* the request it returns running = FALSE and no models, and after a body
\* with a model array it returns the names of the entries whose name is a
\* string, in order, and skips the others.
C22_StatusNeverFails ==
    resp.op = "status" =>
        /\ resp.ok
        /\ TransportFailed(resp.reply) =>
              (~resp.running /\ resp.models = <<>>)
        /\ (resp.reply.kind = "json" /\ resp.reply.hasModels) =>
              (resp.running /\ resp.models = NamesOf(resp.reply.entries))

LastTaskOf(k) == CHOOSE t \in TasksOf(k) : \A u \in TasksOf(k) : u <= t

\* C24: the record of a key follows the lines of one pull stream: a record
\* written from a line is written from a line of the stream of the last
\* start_model_pull for the key, never of the stream of an earlier attempt.
C24_WritesInStreamOrder ==
    \A k \in Keys :
        writer[k].line # NullObj => writer[k].task = LastTaskOf(k)

\* the store after the lines have been handled one after the other
RECURSIVE ApplyLines(_, _, _, _)
ApplyLines(map, model, lines, now) ==
    IF lines = <<>> THEN map
    ELSE ApplyLines(ProcessLine(map, model, Head(lines), now), model,
                    Tail(lines), now)

\* C25: whatever the cuts between the transport chunks, once the whole pull
\* body has been delivered the record is the one that handling every line
\* of the body in order gives; a line cut in two is handled like any other.
C25_EveryLineApplied ==
    \A t \in 1..Len(tasks) :
        (/\ tasks[t].phase = "ended"
         /\ tasks[t].body # <<>>
         /\ tasks[t].got = Len(tasks[t].body)) =>
            SameProgress(store[tasks[t].key],
                         ApplyLines(Insert(EmptyStore, tasks[t].key,
                                           Starting(tasks[t].key)),
                                    tasks[t].key, StrLines(tasks[t].body),
                                    1)[tasks[t].key])

\* the chunk task t receives in the step: the bytes of the body from got
\* to got'
ChunkLines(t) ==
    StrLines(SubSeq(tasks[t].body, tasks[t].got + 1, tasks'[t].got))

\* C28: a step of a pull task that handles a line that is not JSON, the
\* first line of the chunk it receives or a pending line, or that receives
\* a read error, leaves the store as it was; the task stays in its loop and
\* the lines that follow in the chunk are still to be handled.
C28_BadLineSkipped ==
    [][\A t \in 1..Len(tasks) :
          /\ (tasks'[t].got > tasks[t].got /\ ~IsJson(Head(ChunkLines(t)))) =>
                /\ store' = store
                /\ tasks'[t].phase = "reading"
                /\ tasks'[t].pending = Tail(ChunkLines(t))
          /\ (/\ tasks[t].pending # <<>>
              /\ tasks'[t].pending # tasks[t].pending
              /\ ~IsJson(Head(tasks[t].pending))) =>
                /\ store' = store
                /\ tasks'[t].phase = "reading"
                /\ tasks'[t].pending = Tail(tasks[t].pending)
          /\ (tasks'[t].reads > tasks[t].reads /\ tasks'[t].got = tasks[t].got) =>
                /\ store' = store
                /\ tasks'[t].phase = "reading"]_vars

\* the body was a line that is not JSON and then the success line; a read
\* error came in between, and the download is complete
C28_Witness ==
    /\ tasks[1].body = <<Junk, NL>> \o Line(Success)
    /\ tasks[1].got = Len(tasks[1].body)
    /\ tasks[1].reads = 3
    /\ tasks[1].phase = "ended"
    /\ store[tasks[1].key].status = "Complete"

\* C29: a record produced by a line with no error field and a status other
\* than "success" has done = FALSE, the status text of the line, completed
\* as bytes_downloaded, and percent = completed / total * 100 when
\* total > 0 and 0 when total is 0 or missing.
C29_ProgressLineFields ==
    \A k \in Keys :
        (/\ FromLine(k)
         /\ writer[k].line.error = JMissing
         /\ AsStr(writer[k].line.status) # Some("success")) =>
            LET total == IF writer[k].line.total.t = "num"
                         THEN writer[k].line.total.n ELSE 0
                completed == IF writer[k].line.completed.t = "num"
                             THEN writer[k].line.completed.n ELSE 0
            IN  /\ ~store[k].done
                /\ store[k].status = writer[k].line.status.s
                /\ store[k].bytes_downloaded = completed
                /\ store[k].percent =
                      IF total > 0 THEN (completed * 100000) \div total ELSE 0

\* two keys: one record from a line with total > 0, the other from a line
\* whose total is 0
C29_Witness ==
    \E k1, k2 \in Keys :
        /\ FromLine(k1) /\ FromLine(k2)
        /\ writer[k1].line = Pulling(1)
        /\ store[k1].percent = 100000 \div MaxTotal
        /\ writer[k2].line = PullObj(JStr("pulling"), JNum(0), JNum(1), JMissing)
        /\ store[k2].percent = 0 /\ store[k2].bytes_downloaded = 1

\* C30: the set of keys of the store never shrinks: a key that has a record
\* has one after every step of start_model_pull, of a pull task, of
\* cancel_model_pull and of check_pull_progress.
C30_KeysNeverShrink ==
    [][DOMAIN store \subseteq DOMAIN store']_vars

\* both keys have a record; one was cancelled, the other written by a
\* task that has ended
C30_Witness ==
    /\ DOMAIN store = Keys
    /\ \E k \in Keys : store[k].status = "Cancelled"
    /\ \E t \in 1..Len(tasks) :
          /\ tasks[t].phase = "ended"
          /\ writer[tasks[t].key].task = t
          /\ store[tasks[t].key].status # "Cancelled"

\* m is a piece of s: s = u \o m \o v for some u and v
IsPieceOf(m, s) ==
    \E i \in 1..(Len(s) + 1) : \E j \in 0..Len(s) : SubSeq(s, i, j) = m

\* C31: with no record for the trimmed name m, check_pull_progress returns
\* the record "Complete", percent 100, done TRUE exactly when a listed model
\* name equals m or holds m as a piece of it, and the record "Waiting...",
\* percent 0, done FALSE otherwise; an m that is empty is a piece of every
\* listed name.
C31_FallbackExactlyOnMatch ==
    (resp.op = "check" /\ resp.probed) =>
        LET m == Trim(resp.name)
            listed == \E i \in 1..Len(resp.models) :
                          resp.models[i] = m \/ IsPieceOf(m, resp.models[i])
        IN  /\ resp.rec.model = m
            /\ resp.rec.status = IF listed THEN "Complete" ELSE "Waiting..."
            /\ resp.rec.percent = IF listed THEN 100000 ELSE 0
            /\ resp.rec.done = listed

\* a name of blanks only is checked against a list that is not empty
C31_Witness ==
    /\ resp.op = "check" /\ resp.probed
    /\ resp.name = <<" ">>
    /\ resp.models # <<>>
    /\ resp.rec.status = "Complete" /\ resp.rec.done

\* C33: get_ollama_status returns running = TRUE only when the body of the
\* answer was JSON with an array under "models"; a body that is not JSON,
\* or JSON without that array, gives running = FALSE.
C33_RunningOnlyWithList ==
    resp.op = "status" =>
        (resp.running <=> (resp.reply.kind = "json" /\ resp.reply.hasModels))

\* C35: cancel_model_pull(m) changes nothing but done, status and error of
\* the record keyed by the trimmed m: its model, percent, bytes_downloaded,
\* speed and last_update stay, and so does the record of every other key.
C35_CancelTouchesThreeFields ==
    [][(resp.op = "none" /\ resp'.op = "cancel") =>
          LET k == Trim(resp'.name)
          IN  /\ DOMAIN store' = DOMAIN store
              /\ \A j \in DOMAIN store \ {k} : store'[j] = store[j]
              /\ k \in DOMAIN store =>
                    /\ store'[k].model = store[k].model
                    /\ store'[k].percent = store[k].percent
                    /\ store'[k].bytes_downloaded = store[k].bytes_downloaded
                    /\ store'[k].speed = store[k].speed
                    /\ store'[k].last_update = store[k].last_update]_vars

\* a cancel has just marked a record that had progress, next to the record
\* of another key
C35_Witness ==
    /\ resp.op = "cancel"
    /\ Trim(resp.name) \in DOMAIN store
    /\ LET p == store[Trim(resp.name)]
       IN  /\ p.status = "Cancelled"
           /\ p.percent > 0 /\ p.bytes_downloaded > 0
    /\ \E j \in DOMAIN store \ {Trim(resp.name)} : store[j].status # "Cancelled"

\* C36: the store is keyed on trimmed names. Every key is non-empty with no
\* whitespace at either end, and the record under it names it as its model;
\* an accepted start_model_pull(a) puts its record under trim(a); for every
\* name, check_pull_progress returns, and cancel_model_pull marks, the record
\* under the trimmed name when there is one.
C36_KeyedOnTrimmedName ==
    [][/\ \A k \in DOMAIN store' :
             /\ k # <<>>
             /\ ~IsWhitespace(k[1]) /\ ~IsWhitespace(k[Len(k)])
             /\ store'[k].model = k
       /\ (resp.op = "none" /\ resp'.op = "start" /\ ~resp'.rec.done) =>
             /\ Trim(resp'.name) \in DOMAIN store'
             /\ store'[Trim(resp'.name)] = resp'.rec
       /\ (resp.op = "none" /\ resp'.op = "check"
             /\ Trim(resp'.name) \in DOMAIN store) =>
             resp'.rec = store[Trim(resp'.name)]
       /\ (resp.op = "none" /\ resp'.op = "cancel"
             /\ Trim(resp'.name) \in DOMAIN store) =>
             /\ store'[Trim(resp'.name)].status = "Cancelled"
             /\ store'[Trim(resp'.name)].model = Trim(resp'.name)]_vars

\* a cancel under a name with whitespace around it has marked the record
\* that a task had written under the trimmed name
C36_Witness ==
    /\ resp.op = "cancel"
    /\ resp.name = <<" ", "a">>
    /\ DOMAIN store = {<<"a">>}
    /\ store[<<"a">>].status = "Cancelled"
    /\ store[<<"a">>].model = <<"a">>
    /\ Len(tasks) = 1 /\ tasks[1].key = <<"a">>

(***************************************************************************)
(* Properties of the generation relay.                                     *)
(***************************************************************************)
\* a line that carries a token: a non-empty response, done not true
IsTokenLine(line) ==
    /\ ParseJson(line).ok
    /\ AsStr(ParseJson(line).v.response).some
    /\ AsStr(ParseJson(line).v.response).v # ""
    /\ ~(AsBool(ParseJson(line).v.done).some /\ AsBool(ParseJson(line).v.done).v)

\* a line that ends the generation: done = true and no token in it
IsDoneLine(line) ==
    /\ ParseJson(line).ok
    /\ AsBool(ParseJson(line).v.done).some /\ AsBool(ParseJson(line).v.done).v
    /\ \/ ~AsStr(ParseJson(line).v.response).some
       \/ AsStr(ParseJson(line).v.response).v = ""

\* the body is n >= 1 token lines and then one done line, all ended by "\n"
TokensThenDone(body) ==
    LET lines == FramedLines(body, <<>>)
    IN  /\ FramedRest(body, <<>>) = <<>>
        /\ Len(lines) >= 2
        /\ \A i \in 1..(Len(lines) - 1) : IsTokenLine(lines[i])
        /\ IsDoneLine(lines[Len(lines)])

TokenTexts(body) ==
    LET lines == FramedLines(body, <<>>)
    IN  [i \in 1..(Len(lines) - 1) |-> AsStr(ParseJson(lines[i]).v.response).v]

\* C10: when the body that has ended was n lines with a non-empty response
\* and then one line with done = true, the events are the n response texts
\* in order and then one "__END__", and nothing else.
C10_TokensThenEnd ==
    (relay.phase = "eof" /\ TokensThenDone(relay.body)) =>
        relay.events = TokenTexts(relay.body) \o <<END>>

\* C11: once "__END__" has been emitted the relay stream has ended: the
\* sentinel occurs once, it is the last event, and no event follows it
\* whatever lines the upstream still delivers.
C11_NothingAfterEnd ==
    \A i \in 1..Len(relay.events) :
        relay.events[i] = END => i = Len(relay.events)

IsTokenResponse(v) == AsStr(v).some /\ AsStr(v).v # ""

HasJunkLine(body) ==
    \E i \in 1..Len(FramedLines(body, <<>>)) : ~IsJson(FramedLines(body, <<>>)[i])

LinesRead ==
    FramedLines(relay.body, <<>>)
        \o (IF relay.phase = "eof"
            THEN EofLines(FramedRest(relay.body, <<>>)) ELSE <<>>)

DoneTrue(line) ==
    /\ IsJson(line)
    /\ AsBool(ParseJson(line).v.done).some /\ AsBool(ParseJson(line).v.done).v

\* C13: "__END__" is among the events only when a line with done = true has
\* been read; a relay stream whose body broke or closed before any such line
\* has ended without the sentinel.
C13_EndOnlyAfterDone ==
    (\E i \in 1..Len(relay.events) : relay.events[i] = END) =>
        \E i \in 1..Len(LinesRead) : DoneTrue(LinesRead[i])

\* the body broke in the middle of the final line, after one token
C13_Witness ==
    /\ relay.phase = "broken"
    /\ relay.body = Line(GenObj(JStr("Hi"), JBool(FALSE))) \o <<Half(FinalObj, 1)>>
    /\ relay.events = <<"Hi">>

\* C14: a relay whose request could not be sent has yielded one event, the
\* error message, and has ended: in every state after the failure the events
\* are that single message, which is neither a token of the body nor the
\* sentinel.
C14_UnreachableOneEvent ==
    relay.phase = "unreachable" =>
        /\ Len(relay.events) = 1
        /\ relay.events[1] = "[Error: Ollama not reachable]"
        /\ relay.events[1] # END
        /\ relay.body = <<>>

C14_Witness ==
    /\ relay.phase = "unreachable"
    /\ relay.chunks = 0
    /\ relay.events # <<>>

RelayClosed == relay.phase \in {"eof", "broken", "unreachable"}

HasEnd == \E i \in 1..Len(relay.events) : relay.events[i] = END

\* the upstream has gone silent without a complete line with done = true
StalledBeforeDone ==
    /\ relay.phase = "stalled"
    /\ \A i \in 1..Len(LinesRead) : ~DoneTrue(LinesRead[i])

\* C23: under fairness every relay stream that has been opened eventually
\* has delivered "__END__" or is closed, unless the upstream goes silent,
\* with the connection open, before it has sent a line with done = true.
C23_OpenedEndsOrCloses ==
    (relay.phase = "reading") ~> (HasEnd \/ RelayClosed \/ StalledBeforeDone)

\* the upstream has gone silent after the line with done = true: the
\* stream is open and the sentinel is out
C23_Witness ==
    /\ relay.phase = "stalled"
    /\ relay.body = Line(GenObj(JStr("Hi"), JBool(FALSE))) \o Line(FinalObj)
    /\ relay.events[Len(relay.events)] = END

\* the events the spec asks of one line: the response when it is a string
\* that is not empty, then the sentinel when done = true
SpecLineEvents(line) ==
    IF IsJson(line)
    THEN (IF IsTokenResponse(ParseJson(line).v.response)
          THEN <<AsStr(ParseJson(line).v.response).v>> ELSE <<>>)
         \o (IF DoneTrue(line) THEN <<END>> ELSE <<>>)
    ELSE <<>>

RECURSIVE SpecEvents(_)
SpecEvents(lines) ==
    IF lines = <<>> THEN <<>>
    ELSE SpecLineEvents(Head(lines)) \o SpecEvents(Tail(lines))

\* C26: a line yields a token event only when its response is a string that
\* is not empty: the events of the lines read so far are, line by line, the
\* non-empty response and then the sentinel of a done line, and no event is
\* the empty string.
C26_NoEmptyToken ==
    relay.phase = "reading" =>
        /\ \A i \in 1..Len(relay.events) : relay.events[i] # ""
        /\ relay.events = SpecEvents(LinesRead)

\* C27: bytes after the last "\n" are held back and yield nothing: while the
\* body streams, and after it has ended, the events are those of the lines
\* that were ended by "\n"; an unfinished last line yields neither a token
\* nor the sentinel.
C27_PartialLineDiscarded ==
    relay.phase \in {"reading", "eof", "broken"} =>
        relay.events = LinesEvents(FramedLines(relay.body, <<>>))

(***************************************************************************)
(* Properties of the core as a whole.                                      *)
(***************************************************************************)
\* C32: no request is sent twice.  A pull task exists only through an
\* accepted start_model_pull, one per call, and once its request has been
\* answered or has failed it never sends it again, whatever comes after: an
\* error line, a cancel, the body breaking off.  A relay stream that has
\* sent its request never sends it again.
C32_NoRetry ==
    [][/\ Len(tasks') <= Len(tasks) + 1
       /\ Len(tasks') > Len(tasks) =>
             (resp.op = "none" /\ resp'.op = "start")
       /\ \A t \in 1..Len(tasks) :
             /\ tasks'[t].key = tasks[t].key
             /\ tasks[t].phase # "connecting" => tasks'[t].phase # "connecting"
       /\ relay.phase # "idle" => relay'.phase # "idle"]_vars

\* a download was cancelled after its body broke off, and no task is left
\* that could send a request
C32_Witness ==
    /\ Len(tasks) = 1
    /\ tasks[1].phase = "ended" /\ tasks[1].reads > 0
    /\ store[tasks[1].key].status = "Cancelled"
    /\ writer[tasks[1].key].line = Pulling(1)
    /\ resp = NoResp

EndEvents == { i \in 1..Len(relay.events) : relay.events[i] = END }

DoneLines == { j \in 1..Len(LinesRead) : DoneTrue(LinesRead[j]) }

ResponseTexts ==
    { AsStr(ParseJson(LinesRead[j]).v.response).v :
          j \in { x \in 1..Len(LinesRead) :
                    /\ IsJson(LinesRead[x])
                    /\ AsStr(ParseJson(LinesRead[x]).v.response).some } }

\* C34: the payloads tell the events apart: there are as many events
\* "__END__" as lines with done = true were read, so none of them is a token;
\* the text of the error event is seen only when the request failed, so a
\* token is never taken for it; every other event carries the response text
\* of a line that was read.
C34_PayloadsTellEventsApart ==
    /\ Cardinality(EndEvents) = Cardinality(DoneLines)
    /\ \A i \in 1..Len(relay.events) :
          /\ relay.events[i] = Unreachable => relay.phase = "unreachable"
          /\ relay.events[i] \notin {END, Unreachable} =>
                 relay.events[i] \in ResponseTexts

(***************************************************************************)
(* Properties of the client.                                               *)
(***************************************************************************)
\* C37: the client's active_downloads never holds two entries of one model
\* that are both not done, whatever the order of start, poll answer, cancel
\* and hide.
C37_OnePendingPerModel ==
    \A i, j \in 1..Len(client.active_downloads) :
        (/\ i # j
         /\ client.active_downloads[i].model = client.active_downloads[j].model)
            => (client.active_downloads[i].done \/ client.active_downloads[j].done)

Reading == { r \in 1..Len(client.readers) : client.readers[r].phase = "reading" }

\* C38: the client reads one generation response at a time: at most one
\* reader loop is reading, and is_streaming is true as long as a reader that
\* do_send has spawned has not stopped, so that do_send stays ignored.
C38_OneResponseAtATime ==
    /\ Cardinality(Reading) <= 1
    /\ \A r \in 1..Len(client.readers) :
          client.readers[r].phase # "stopped" => client.is_streaming

====
